---- MODULE Spec2Model ----
(***************************************************************************)
(* State-machine model of the in5 directory scraper.                       *)
(*                                                                         *)
(*   main.py            main_async, scrape_letter_task (crawl scheduler),  *)
(*                      process_data_concurrently, process_single_company  *)
(*   infive_scraper.py  InFiveScraper.scrape_by_letter (paginated crawler) *)
(*   website_scraper.py WebsiteScraper (login/sign-up probe)               *)
(*   app_scraper.py     AppScraper (app store lookups, match rule)         *)
(*   vector_store.py    VectorStore.add_startup_data (ChromaDB index)      *)
(*                                                                         *)
(* The crawl stage runs on one asyncio event loop: a step of a partition   *)
(* is the code between two suspension points.  The body of the per-item    *)
(* loop of scrape_by_letter only touches the partition's own page and its  *)
(* own local variables, so one item is one step.                           *)
(***************************************************************************)
EXTENDS Integers, Sequences, FiniteSets, TLC

(***************************************************************************)
(* Bounds of the model.                                                    *)
(***************************************************************************)
\* Number of characters of config.SCRAPE_CHARACTERS that are modelled.
NumLetters == 3
\* config.MAX_CONCURRENT_TASKS (4 in config.py), scaled with NumLetters so
\* that the admission gate fills up.
MAX_CONCURRENT_TASKS == 2
\* Largest number of listing cards the host page shows for one letter.
MaxCards == 2
\* config.NO_OF_APPS_TO_SCRAPE (1 in config.py): the number of search
\* results a lookup asks for, raised so that a result has a successor.
NO_OF_APPS_TO_SCRAPE == 2

Letters == 1..NumLetters

(***************************************************************************)
(* Values.                                                                 *)
(***************************************************************************)
BASE_URL == "https://infive.ae/setup/directory/"

\* Python None / JavaScript null: the attribute is absent.
NoHref == "<None>"
\* JavaScript undefined: querySelector found no element.
JsUndefined == "<undefined>"

XRel == "startup-x"
XAbs == "https://infive.ae/setup/directory/startup-x"
YRel == "startup-y"

\* urllib.parse.urljoin on the hrefs of the model: a relative reference is
\* resolved against the base, an absolute URL is kept, "" gives the base.
urljoin(base, href) ==
  CASE href = XRel -> "https://infive.ae/setup/directory/startup-x"
    [] href = YRel -> "https://infive.ae/setup/directory/startup-y"
    [] href = ""   -> base
    [] OTHER       -> href

\* Python truthiness of an attribute value: `not href`.
Falsy(href) == href \in {NoHref, ""}

\* A listing card (div.listingItemLI) as the host page renders it.
CardX    == [href |-> XRel,   title |-> "Falcon FZCO", website |-> "falcon.ae"]
CardXAbs == [href |-> XAbs,   title |-> "Falcon FZCO", website |-> "https://falcon.ae"]
CardY    == [href |-> YRel,   title |-> "Yalla Labs",  website |-> ""]
CardBare == [href |-> NoHref, title |-> "",            website |-> ""]

\* What the host directory can show: on its entry page (front) and under
\* the letter filter (listing, at most cap cards).
RichHost  == [front |-> {CardX, CardBare},
              listing |-> {CardX, CardXAbs, CardY, CardBare}, cap |-> MaxCards]
SmallHost == [front |-> {CardY}, listing |-> {CardX, CardBare}, cap |-> 2]
EmptyHost == [front |-> {}, listing |-> {}, cap |-> 0]

\* All sequences over S of length at most n.
RECURSIVE SeqsUpTo(_, _)
SeqsUpTo(S, n) ==
  IF n = 0 THEN {<<>>}
  ELSE LET shorter == SeqsUpTo(S, n - 1)
       IN  shorter \cup {Append(s, c) : s \in {t \in shorter : Len(t) = n - 1}, c \in S}

\* website_url.startswith(('http://', 'https://'))
StartsWithScheme(w) == w \in {"http://falcon.ae", "https://falcon.ae"}

\* 'http://' + website_url
PrependHttp(w) == IF w = "falcon.ae" THEN "http://falcon.ae" ELSE w

\* Lines 121-122: default to the http scheme.
NormalizeWebsite(w) == IF StartsWithScheme(w) THEN w ELSE PrependHttp(w)

\* Outcomes of validation_page.goto: an ok response, a non-ok response, no
\* response (None), a PlaywrightError (transport error or timeout), or an
\* exception that is not a PlaywrightError.
ProbeOutcomes == {"ok", "not_ok", "no_response", "pw_error", "other_error"}

\* Lines 119, 133-140: is_valid_startup after the probe.
IsValidAnyResponse(outcome) == outcome \in {"ok", "not_ok"}
IsValidStartup(outcome) == outcome = "ok"

\* Line 88: profile_link, the key the crawler deduplicates on.
IdentityKey(href) == urljoin(BASE_URL, href)

\* Line 89: profile_link in processed_links.
SeenNever(link, links) == FALSE
Seen(link, links) == link \in links

\* The f-string of line 66 renders the baseline into the JavaScript source:
\* None becomes the text 'None'.
FormatBaseline(href) == IF href = NoHref THEN "None" ELSE href

\* document.querySelector('div.listingItemLI a')?.getAttribute('href')
JsFirstHref(d) == IF d = <<>> THEN JsUndefined ELSE d[1].href

\* The condition wait_for_function polls at lines 65-68.
FilterCondition(d, base) == JsFirstHref(d) # FormatBaseline(base)

Links(s) == {s[i].in5_profile_link : i \in 1..Len(s)}

VARIABLES
  letters_to_process, \* main_async: the partitions of this run, in order
  hostCards,          \* what the host directory can show, per partition
  mainpc,             \* position of main_async
  browser,            \* the shared browser: "open" or "closed"
  sem,                \* value of the asyncio.Semaphore
  waiters,            \* FIFO of the partitions waiting at the semaphore
  pc,                 \* position of each scrape_letter_task
  context,            \* each task's browsing context: "none", "open", "closed"
  dom,                \* listing cards visible on each task's page
  baseline,           \* first_startup_href_before_filter
  count,              \* initial_startup_count of the current iteration
  idx,                \* index of the element the for loop is at
  processed,          \* processed_links
  accepted,           \* all_startups_data
  result,             \* the DataFrame scrape_by_letter returned
  file,               \* the partition's CSV file
  faulted,            \* history: the exception handler of line 184 ran
  exit,               \* history: the statement scrape_by_letter returned from
  before,             \* history: processed_links when the current iteration of
                      \* the while loop began
  reread,             \* history: links skipped at line 90 that had been
                      \* processed in an earlier iteration
  observed,           \* history: the marker differed from the baseline when the
                      \* filter wait ended
  extracted,          \* history: links whose field extraction was started
  probed,             \* history: links whose website was probed
  repeated,           \* history: links extracted or probed a second time
  rejected,           \* history: links skipped for an invalid website
  probedOk,           \* history: links whose probe returned an ok response
  epc,                \* position of process_data_concurrently
  flags,              \* do_app_processing, do_website_processing
  website_scraper,    \* the global of main.py 28: "None" or "ready"
  companies,          \* companies_to_process
  rows,               \* the row process_single_company returned, per company
  combined,           \* combined.csv
  appHost,            \* what the two app stores answer to a search
  work,               \* per company: the two lookups of scrape_apps and
                      \* app_details_list, in the order of completion
  index,              \* the ChromaDB collection: documents by id
  match               \* a query name and a publisher name given to the match
                      \* rule, and its verdict

\* What the crawl stage never writes: the host, and the enrichment stage.
enrichVars == <<epc, flags, website_scraper, companies, rows, combined, work, index>>
restVars == <<hostCards, appHost, enrichVars, match>>
schedVars == <<letters_to_process, restVars, mainpc, browser, sem, waiters>>
taskVars  == <<pc, context, result, file, faulted, exit>>
pageVars  == <<dom, baseline, count, idx, observed, before, reread>>
itemVars  == <<processed, accepted, extracted, probed, repeated, rejected, probedOk>>
vars == <<schedVars, taskVars, pageVars, itemVars>>

NoFile == <<>>

Finished == {"done", "failed", "cancelled"}
\* Positions inside the `async with semaphore` block.
InGate == {"new_context", "new_page", "goto", "step1", "click_filter", "wait_filter",
           "read", "items", "show_more", "wait_growth", "returned", "finally"}
\* Positions inside the while loop of scrape_by_letter.
InLoop == {"read", "items", "show_more", "wait_growth"}

Holders == {p \in Letters : pc[p] \in InGate}

\* The driver answers only while the browser is up.
DriverUp == browser = "open"

InitCrawlOver(order, cards, files) ==
  /\ letters_to_process = order
  /\ hostCards = cards
  /\ mainpc = "start"
  /\ browser = "open"
  /\ sem = MAX_CONCURRENT_TASKS
  /\ waiters = <<>>
  /\ pc = [p \in Letters |-> "created"]
  /\ context = [p \in Letters |-> "none"]
  /\ dom = [p \in Letters |-> <<>>]
  /\ baseline = [p \in Letters |-> NoHref]
  /\ count = [p \in Letters |-> 0]
  /\ idx = [p \in Letters |-> 0]
  /\ processed = [p \in Letters |-> {}]
  /\ accepted = [p \in Letters |-> <<>>]
  /\ result = [p \in Letters |-> <<>>]
  /\ file = files
  /\ faulted = [p \in Letters |-> FALSE]
  /\ exit = [p \in Letters |-> "none"]
  /\ before = [p \in Letters |-> {}]
  /\ reread = [p \in Letters |-> {}]
  /\ observed = [p \in Letters |-> FALSE]
  /\ extracted = [p \in Letters |-> {}]
  /\ probed = [p \in Letters |-> {}]
  /\ repeated = [p \in Letters |-> {}]
  /\ rejected = [p \in Letters |-> {}]
  /\ probedOk = [p \in Letters |-> {}]

\* A run that finds the output directory empty.
InitCrawl(order, cards) == InitCrawlOver(order, cards, [p \in Letters |-> NoFile])

(***************************************************************************)
(* main_async and the admission gate (main.py 212-229, 189-191).           *)
(***************************************************************************)
Min(a, b) == IF a < b THEN a ELSE b

\* Semaphore.release() when a task leaves the `async with` block.
ReleaseLeak(s) == s
Release(s) == s + 1

\* asyncio.gather starts the tasks in list order; each runs up to its first
\* suspension: the first MAX_CONCURRENT_TASKS take the semaphore without
\* suspending, the others queue at it.
Gather ==
  /\ mainpc = "start"
  /\ LET n == Len(letters_to_process)
         k == Min(n, sem)
         entered == {letters_to_process[i] : i \in 1..k}
         queued == {letters_to_process[i] : i \in (k + 1)..n}
     IN  /\ pc' = [p \in Letters |->
                    IF p \in entered THEN "new_context"
                    ELSE IF p \in queued THEN "waiting" ELSE pc[p]]
         /\ sem' = sem - k
         /\ waiters' = SubSeq(letters_to_process, k + 1, n)
  /\ mainpc' = "gather"
  /\ UNCHANGED <<letters_to_process, restVars, browser, context, result, file,
                 faulted, exit, pageVars, itemVars>>

\* A queued task is woken in FIFO order once the semaphore has a free slot.
Admit(p) ==
  /\ waiters # <<>>
  /\ p = Head(waiters)
  /\ pc[p] = "waiting"
  /\ sem > 0
  /\ sem' = sem - 1
  /\ waiters' = Tail(waiters)
  /\ pc' = [pc EXCEPT ![p] = "new_context"]
  /\ UNCHANGED <<letters_to_process, restVars, mainpc, browser, context, result,
                 file, faulted, exit, pageVars, itemVars>>

\* gather returns when every task has returned.
GatherReturns ==
  /\ mainpc = "gather"
  /\ \A i \in 1..Len(letters_to_process) : pc[letters_to_process[i]] = "done"
  /\ mainpc' = "close_browser"
  /\ UNCHANGED <<letters_to_process, restVars, browser, sem, waiters, taskVars,
                 pageVars, itemVars>>

\* gather (return_exceptions is False) raises the first exception of a task
\* at once; it propagates out of `async with async_playwright()`, which stops
\* the driver and with it the browser, and out of main_async.
GatherRaises ==
  /\ mainpc = "gather"
  /\ \E p \in Letters : pc[p] = "failed"
  /\ mainpc' = "aborted"
  /\ browser' = "closed"
  /\ UNCHANGED <<letters_to_process, restVars, sem, waiters, taskVars, pageVars,
                 itemVars>>

\* Line 228, and the report of line 229.
BrowserClose ==
  /\ mainpc = "close_browser"
  /\ browser' = "closed"
  /\ mainpc' = "completed"
  /\ UNCHANGED <<letters_to_process, restVars, sem, waiters, taskVars, pageVars,
                 itemVars>>

\* browser.close() raises: main_async is left by the exception.
BrowserCloseFault ==
  /\ mainpc = "close_browser"
  /\ browser' = "closed"
  /\ mainpc' = "aborted"
  /\ UNCHANGED <<letters_to_process, restVars, sem, waiters, taskVars, pageVars,
                 itemVars>>

\* The frame of a task that has ended is gone: its locals (and those of its
\* scrape_by_letter call), its page and the history kept of the running
\* task no longer exist.  The file it wrote stays.
Discard(p) ==
  /\ result' = [result EXCEPT ![p] = <<>>]
  /\ faulted' = [faulted EXCEPT ![p] = FALSE]
  /\ exit' = [exit EXCEPT ![p] = "none"]
  /\ before' = [before EXCEPT ![p] = {}]
  /\ reread' = [reread EXCEPT ![p] = {}]
  /\ dom' = [dom EXCEPT ![p] = <<>>]
  /\ baseline' = [baseline EXCEPT ![p] = NoHref]
  /\ count' = [count EXCEPT ![p] = 0]
  /\ idx' = [idx EXCEPT ![p] = 0]
  /\ observed' = [observed EXCEPT ![p] = FALSE]
  /\ processed' = [processed EXCEPT ![p] = {}]
  /\ accepted' = [accepted EXCEPT ![p] = <<>>]
  /\ extracted' = [extracted EXCEPT ![p] = {}]
  /\ probed' = [probed EXCEPT ![p] = {}]
  /\ repeated' = [repeated EXCEPT ![p] = {}]
  /\ probedOk' = [probedOk EXCEPT ![p] = {}]
  /\ UNCHANGED <<file, rejected>>

\* asyncio.run cancels the tasks still pending when main_async has been left
\* by an exception.  A task inside the gate leaves it (releasing the
\* semaphore); a queued task leaves the queue.
Cancel(p) ==
  /\ mainpc = "aborted"
  /\ pc[p] \in InGate \cup {"waiting"}
  /\ pc' = [pc EXCEPT ![p] = "cancelled"]
  /\ IF pc[p] = "waiting"
       THEN /\ waiters' = SelectSeq(waiters, LAMBDA q : q # p)
            /\ sem' = sem
       ELSE /\ waiters' = waiters
            /\ sem' = Release(sem)
  /\ Discard(p)
  /\ UNCHANGED <<letters_to_process, restVars, mainpc, browser, context>>

(***************************************************************************)
(* scrape_letter_task (main.py 189-209).                                   *)
(***************************************************************************)
\* Line 196.
NewContext(p) ==
  /\ pc[p] = "new_context"
  /\ DriverUp
  /\ context' = [context EXCEPT ![p] = "open"]
  /\ pc' = [pc EXCEPT ![p] = "new_page"]
  /\ UNCHANGED <<schedVars, result, file, faulted, exit, pageVars, itemVars>>

\* Line 196 raises: caught at line 205, context is still None.
NewContextFault(p) ==
  /\ pc[p] = "new_context"
  /\ pc' = [pc EXCEPT ![p] = "finally"]
  /\ UNCHANGED <<schedVars, context, result, file, faulted, exit, pageVars, itemVars>>

\* Lines 197-198.
NewPage(p) ==
  /\ pc[p] = "new_page"
  /\ DriverUp
  /\ pc' = [pc EXCEPT ![p] = "goto"]
  /\ UNCHANGED <<schedVars, context, result, file, faulted, exit, pageVars, itemVars>>

\* Line 197 raises: caught at line 205.
NewPageFault(p) ==
  /\ pc[p] = "new_page"
  /\ pc' = [pc EXCEPT ![p] = "finally"]
  /\ UNCHANGED <<schedVars, context, result, file, faulted, exit, pageVars, itemVars>>

\* Line 199: the entry page shows the unfiltered listing.
Goto(p) ==
  /\ pc[p] = "goto"
  /\ DriverUp
  /\ \E d \in SeqsUpTo(hostCards[p].front, 1) : dom' = [dom EXCEPT ![p] = d]
  /\ pc' = [pc EXCEPT ![p] = "step1"]
  /\ UNCHANGED <<schedVars, context, result, file, faulted, exit, baseline, count, before, reread, idx,
                 observed, itemVars>>

\* Line 199 raises (navigation timeout or error): caught at line 205.
GotoFault(p) ==
  /\ pc[p] = "goto"
  /\ pc' = [pc EXCEPT ![p] = "finally"]
  /\ UNCHANGED <<schedVars, context, result, file, faulted, exit, pageVars, itemVars>>

\* Lines 201-204: a non-empty DataFrame replaces the partition's file.
Save(p) ==
  /\ pc[p] = "returned"
  /\ result[p] # <<>>
  /\ file' = [file EXCEPT ![p] = result[p]]
  /\ pc' = [pc EXCEPT ![p] = "finally"]
  /\ UNCHANGED <<schedVars, context, result, faulted, exit, pageVars, itemVars>>

\* Line 201: an empty DataFrame is not written.
SaveSkipped(p) ==
  /\ pc[p] = "returned"
  /\ result[p] = <<>>
  /\ pc' = [pc EXCEPT ![p] = "finally"]
  /\ UNCHANGED <<schedVars, context, result, file, faulted, exit, pageVars, itemVars>>

\* df.to_csv raises before anything is written: caught at line 205.
SaveFault(p) ==
  /\ pc[p] = "returned"
  /\ result[p] # <<>>
  /\ pc' = [pc EXCEPT ![p] = "finally"]
  /\ UNCHANGED <<schedVars, context, result, file, faulted, exit, pageVars, itemVars>>

\* Lines 207-209 and the end of the `async with`: the context is closed and
\* the semaphore released.
Finally(p) ==
  /\ pc[p] = "finally"
  /\ context' = [context EXCEPT ![p] = IF @ = "open" THEN "closed" ELSE @]
  /\ pc' = [pc EXCEPT ![p] = "done"]
  /\ sem' = Release(sem)
  /\ Discard(p)
  /\ UNCHANGED <<letters_to_process, restVars, mainpc, browser, waiters>>

\* Line 208 raises: nothing catches an exception of the finally block, so it
\* leaves the `async with` (the semaphore is released) and ends the task.
FinallyFault(p) ==
  /\ pc[p] = "finally"
  /\ context[p] = "open"
  /\ pc' = [pc EXCEPT ![p] = "failed"]
  /\ sem' = Release(sem)
  /\ Discard(p)
  /\ UNCHANGED <<letters_to_process, restVars, mainpc, browser, waiters, context>>

(***************************************************************************)
(* InFiveScraper.scrape_by_letter (infive_scraper.py 34-186).              *)
(***************************************************************************)
\* Line 186: what the handler of line 184 returns.
FaultResultEmpty(acc) == <<>>
FaultResult(acc) == acc

\* Line 221: the run of one letter (--letter).  The histories `exit`,
\* `before` and `reread` are kept in such a run, where the properties about them are
\* stated.
SingleLetter == Len(letters_to_process) = 1

ReturnWith(p, df, isFault, line) ==
  /\ pc' = [pc EXCEPT ![p] = "returned"]
  /\ result' = [result EXCEPT ![p] = df]
  /\ faulted' = [faulted EXCEPT ![p] = isFault]
  /\ exit' = [exit EXCEPT ![p] = IF SingleLetter THEN line ELSE @]

\* An exception reaches the handler of lines 184-186.
OuterFault(p) ==
  /\ ReturnWith(p, FaultResult(accepted[p]), TRUE, "handler")
  /\ UNCHANGED <<schedVars, context, file, pageVars, itemVars>>

\* Lines 52-54: the unfiltered list is there; take the baseline marker.
Step1(p) ==
  /\ pc[p] = "step1"
  /\ DriverUp
  /\ dom[p] # <<>>
  /\ baseline' = [baseline EXCEPT ![p] = dom[p][1].href]
  /\ pc' = [pc EXCEPT ![p] = "click_filter"]
  /\ UNCHANGED <<schedVars, context, result, file, faulted, exit, dom, count, before, reread, idx,
                 observed, itemVars>>

\* Lines 55-57: the list did not show up in time.
Step1Timeout(p) ==
  /\ pc[p] = "step1"
  /\ DriverUp
  /\ ReturnWith(p, <<>>, FALSE, "no_list")
  /\ UNCHANGED <<schedVars, context, file, pageVars, itemVars>>

Step1Fault(p) == pc[p] = "step1" /\ OuterFault(p)

\* Line 62.
ClickFilter(p) ==
  /\ pc[p] = "click_filter"
  /\ DriverUp
  /\ pc' = [pc EXCEPT ![p] = "wait_filter"]
  /\ UNCHANGED <<schedVars, context, result, file, faulted, exit, pageVars, itemVars>>

\* Line 62 raises (the click is outside the inner try blocks).
ClickFilterFault(p) == pc[p] = "click_filter" /\ OuterFault(p)

\* Lines 64-69: the host shows some listing d for the letter (possibly the
\* same one) and the polled condition holds on it.
WaitFilter(p) ==
  /\ pc[p] = "wait_filter"
  /\ DriverUp
  /\ \E d \in SeqsUpTo(hostCards[p].listing, hostCards[p].cap) :
       /\ FilterCondition(d, baseline[p])
       /\ dom' = [dom EXCEPT ![p] = d]
       /\ observed' = [observed EXCEPT ![p] = JsFirstHref(d) # baseline[p]]
  /\ pc' = [pc EXCEPT ![p] = "read"]
  /\ UNCHANGED <<schedVars, context, result, file, faulted, exit, baseline, count, before, reread, idx,
                 itemVars>>

\* Lines 70-72: the condition stayed false until the timeout.
WaitFilterTimeout(p) ==
  /\ pc[p] = "wait_filter"
  /\ DriverUp
  /\ ~FilterCondition(dom[p], baseline[p])
  /\ ReturnWith(p, <<>>, FALSE, "no_change")
  /\ UNCHANGED <<schedVars, context, file, pageVars, itemVars>>

WaitFilterFault(p) == pc[p] = "wait_filter" /\ OuterFault(p)

\* Lines 78-79: the elements of this iteration.
Read(p) ==
  /\ pc[p] = "read"
  /\ DriverUp
  /\ count' = [count EXCEPT ![p] = Len(dom[p])]
  /\ before' = [before EXCEPT ![p] = IF SingleLetter THEN processed[p] ELSE @]
  /\ idx' = [idx EXCEPT ![p] = IF Len(dom[p]) = 0 THEN 0 ELSE 1]
  /\ pc' = [pc EXCEPT ![p] = IF Len(dom[p]) = 0 THEN "show_more" ELSE "items"]
  /\ UNCHANGED <<schedVars, context, result, file, faulted, exit, dom, baseline, observed,
                 reread, itemVars>>

ReadFault(p) == pc[p] = "read" /\ OuterFault(p)

\* `continue`, or the end of the loop body: on to the next element, or to
\* step 4 after the last one.
Continue(p) ==
  /\ IF idx[p] < count[p]
       THEN /\ idx' = [idx EXCEPT ![p] = @ + 1]
            /\ pc' = pc
       ELSE /\ idx' = idx
            /\ pc' = [pc EXCEPT ![p] = "show_more"]
  /\ UNCHANGED <<result, faulted, exit>>

\* Lines 157-159: the handler of the per-item try.
AfterItemFaultAbort(p) ==
  /\ ReturnWith(p, accepted[p], TRUE, "handler")
  /\ idx' = idx
AfterItemFault(p) == Continue(p)

Element(p) == dom[p][idx[p]]
Link(p) == IdentityKey(Element(p).href)

\* Lines 85-90: the item has a link and is new to this run of the partition.
IsNewUnchecked(p) == ~Falsy(Element(p).href)
IsNew(p) == ~Falsy(Element(p).href) /\ ~Seen(Link(p), processed[p])

\* The extraction of an item starts (line 92).
StartExtraction(p) ==
  /\ extracted' = [extracted EXCEPT ![p] = @ \cup {Link(p)}]
  /\ repeated' = [repeated EXCEPT ![p] =
                    @ \cup (IF Link(p) \in extracted[p] THEN {Link(p)} ELSE {})]

\* The probe of an item starts (line 128).
StartProbe(p) ==
  /\ extracted' = [extracted EXCEPT ![p] = @ \cup {Link(p)}]
  /\ probed' = [probed EXCEPT ![p] = @ \cup {Link(p)}]
  /\ repeated' = [repeated EXCEPT ![p] =
                    @ \cup (IF Link(p) \in extracted[p] \cup probed[p]
                              THEN {Link(p)} ELSE {})]

Entity(p, w) == [name |-> Element(p).title, in5_profile_link |-> Link(p),
                 website |-> w]

\* Line 84 raises (attribute timeout, page gone).
ItemHrefFault(p) ==
  /\ pc[p] = "items"
  /\ AfterItemFault(p)
  /\ UNCHANGED <<schedVars, context, file, dom, baseline, count, before, reread, observed, processed,
                 accepted, extracted, probed, repeated, rejected, probedOk>>

\* Lines 85-86: no href.
ItemNoHref(p) ==
  /\ pc[p] = "items"
  /\ DriverUp
  /\ Falsy(Element(p).href)
  /\ Continue(p)
  /\ UNCHANGED <<schedVars, context, file, dom, baseline, count, before, reread, observed, processed,
                 accepted, extracted, probed, repeated, rejected, probedOk>>

\* Lines 89-90: already processed.
ItemSeen(p) ==
  /\ pc[p] = "items"
  /\ DriverUp
  /\ ~Falsy(Element(p).href)
  /\ Seen(Link(p), processed[p])
  /\ reread' = [reread EXCEPT ![p] =
                  IF SingleLetter /\ Link(p) \in before[p] THEN @ \cup {Link(p)} ELSE @]
  /\ Continue(p)
  /\ UNCHANGED <<schedVars, context, file, dom, baseline, count, before, observed, processed,
                 accepted, extracted, probed, repeated, rejected, probedOk>>

\* Line 155: the link is added to processed_links, the set created at line 46
\* by this call of scrape_by_letter.
RememberForAll(p, link) == [q \in Letters |-> processed[q] \cup {link}]
Remember(p, link) == [processed EXCEPT ![p] = @ \cup {link}]

\* Lines 92-116 raise (title missing or timed out, any other exception).
ItemExtractFault(p) ==
  /\ pc[p] = "items"
  /\ DriverUp
  /\ IsNew(p)
  /\ StartExtraction(p)
  /\ AfterItemFault(p)
  /\ UNCHANGED <<schedVars, context, file, dom, baseline, count, before, reread, observed, processed,
                 accepted, probed, rejected, probedOk>>

\* Lines 92-120, 146-155: no website was extracted (the card has none, or
\* reading its description block timed out, lines 115-116): no probe.
ItemNoWebsite(p) ==
  /\ pc[p] = "items"
  /\ DriverUp
  /\ IsNew(p)
  /\ StartExtraction(p)
  /\ accepted' = [accepted EXCEPT ![p] = Append(@, Entity(p, ""))]
  /\ processed' = Remember(p, Link(p))
  /\ Continue(p)
  /\ UNCHANGED <<schedVars, context, file, dom, baseline, count, before, reread, observed, probed,
                 rejected, probedOk>>

\* Lines 120-155: the website is probed in a validation context of its own,
\* the context is closed, and the item is accepted or skipped.
ItemProbe(p) ==
  /\ pc[p] = "items"
  /\ DriverUp
  /\ IsNew(p)
  /\ Element(p).website # ""
  /\ StartProbe(p)
  /\ \E outcome \in ProbeOutcomes \ {"other_error"} :
       LET w == NormalizeWebsite(Element(p).website)
           valid == IsValidStartup(outcome)
       IN  /\ accepted' = [accepted EXCEPT ![p] =
                             IF valid THEN Append(@, Entity(p, w)) ELSE @]
           /\ rejected' = [rejected EXCEPT ![p] =
                             IF valid THEN @ ELSE @ \cup {Link(p)}]
           /\ probedOk' = [probedOk EXCEPT ![p] =
                             IF outcome = "ok" THEN @ \cup {Link(p)} ELSE @]
  /\ processed' = Remember(p, Link(p))
  /\ Continue(p)
  /\ UNCHANGED <<schedVars, context, file, dom, baseline, count, before, reread, observed>>

\* Lines 128-144 raise out of the validation block: an exception that is not
\* a PlaywrightError, or validation_context.close() failing in the finally
\* (after any outcome of the probe).  Line 155 is not reached.
ItemProbeFault(p) ==
  /\ pc[p] = "items"
  /\ DriverUp
  /\ IsNew(p)
  /\ Element(p).website # ""
  /\ StartProbe(p)
  /\ \E outcome \in ProbeOutcomes :
       probedOk' = [probedOk EXCEPT ![p] =
                      IF outcome = "ok" THEN @ \cup {Link(p)} ELSE @]
  /\ AfterItemFault(p)
  /\ UNCHANGED <<schedVars, context, file, dom, baseline, count, before, reread, observed, processed,
                 accepted, rejected>>

\* Lines 162-163, 177-179: no 'Show more' button: the loop ends.
ShowMoreHidden(p) ==
  /\ pc[p] = "show_more"
  /\ DriverUp
  /\ ReturnWith(p, accepted[p], FALSE, "no_button")
  /\ UNCHANGED <<schedVars, context, file, pageVars, itemVars>>

\* Line 166: the button is visible and the click goes through.
ShowMoreClick(p) ==
  /\ pc[p] = "show_more"
  /\ DriverUp
  /\ pc' = [pc EXCEPT ![p] = "wait_growth"]
  /\ UNCHANGED <<schedVars, context, result, file, faulted, exit, pageVars, itemVars>>

\* Line 166 times out: lines 174-176 end the loop.
ShowMoreClickTimeout(p) ==
  /\ pc[p] = "show_more"
  /\ DriverUp
  /\ ReturnWith(p, accepted[p], FALSE, "click_timeout")
  /\ UNCHANGED <<schedVars, context, file, pageVars, itemVars>>

\* is_visible or click raise something other than a timeout.
ShowMoreFault(p) == pc[p] = "show_more" /\ OuterFault(p)

\* Lines 168-171: the condition wait_for_function waits for, and one that
\* a listing of the same length meets as well.
GrewOrStayed(d, n) == Len(d) >= n
Grew(d, n) == Len(d) > n

\* Lines 168-173: the host rendered a longer listing (new cards, the old
\* ones possibly re-rendered), the count grew past initial_startup_count;
\* next iteration.
Growth(p) ==
  /\ pc[p] = "wait_growth"
  /\ DriverUp
  /\ \E d \in SeqsUpTo(hostCards[p].listing, hostCards[p].cap) :
       /\ Grew(d, count[p])
       /\ dom' = [dom EXCEPT ![p] = d]
  /\ pc' = [pc EXCEPT ![p] = "read"]
  /\ UNCHANGED <<schedVars, context, result, file, faulted, exit, baseline, count, before, reread, idx,
                 observed, itemVars>>

\* Lines 174-176, 182: the `break` leads to the return of the accepted
\* list.
NoGrowthResultEmpty(acc) == <<>>
NoGrowthResult(acc) == acc

\* Lines 174-176: the count did not grow before the timeout.
GrowthTimeout(p) ==
  /\ pc[p] = "wait_growth"
  /\ DriverUp
  /\ ReturnWith(p, NoGrowthResult(accepted[p]), FALSE, "no_growth")
  /\ UNCHANGED <<schedVars, context, file, pageVars, itemVars>>

GrowthFault(p) == pc[p] = "wait_growth" /\ OuterFault(p)

(***************************************************************************)
(* The match rule of AppScraper (app_scraper.py 22-25, 80, 90).            *)
(***************************************************************************)
UpperCase == "ABCDEFGHIJKLMNOPQRSTUVWXYZ"
LowerCase == "abcdefghijklmnopqrstuvwxyz"

Char(s, i) == SubSeq(s, i, i)

\* The lower-case letter of each upper-case letter.
LowerOf ==
  [c \in {Char(UpperCase, i) : i \in 1..Len(UpperCase)} |->
     Char(LowerCase, CHOOSE i \in 1..Len(UpperCase) : Char(UpperCase, i) = c)]

LowerChar(c) == IF c \in DOMAIN LowerOf THEN LowerOf[c] ELSE c

\* str.lower()
RECURSIVE Lower(_)
Lower(s) == IF s = "" THEN "" ELSE LowerChar(Char(s, 1)) \o Lower(SubSeq(s, 2, Len(s)))

\* str.strip()
RECURSIVE Strip(_)
Strip(s) ==
  IF s = "" THEN ""
  ELSE IF Char(s, 1) = " " THEN Strip(SubSeq(s, 2, Len(s)))
  ELSE IF Char(s, Len(s)) = " " THEN Strip(SubSeq(s, 1, Len(s) - 1))
  ELSE s

\* Every character of s is one of cs.
AllIn(s, cs) == \A i \in 1..Len(s) : Char(s, i) \in cs

\* The alternatives of the group (llc|fzco|inc|ltd|co|gmbh).
Suffixes == {"llc", "fzco", "inc", "ltd", "co", "gmbh"}

\* re.IGNORECASE on the group, and the same group matched as written.
FoldCaseExact(s) == s
FoldCase(s) == Lower(s)

\* t as a whole matches [,.\s]*(llc|fzco|inc|ltd|co|gmbh)[\s.]*$
MatchesSuffixPattern(t) ==
  \E a \in 0..Len(t) :
    /\ AllIn(SubSeq(t, 1, a), {",", ".", " "})
    /\ \E b \in a..Len(t) :
         /\ AllIn(SubSeq(t, b + 1, Len(t)), {" ", "."})
         /\ FoldCase(SubSeq(t, a + 1, b)) \in Suffixes

\* Lines 22-25: re.sub removes the leftmost match, which runs to the end of
\* the name; then strip().
clean_company_name(name) ==
  LET starts == {i \in 1..Len(name) : MatchesSuffixPattern(SubSeq(name, i, Len(name)))}
  IN  IF starts = {} THEN Strip(name)
      ELSE Strip(SubSeq(name, 1, (CHOOSE i \in starts : \A j \in starts : i <= j) - 1))

\* The `in` operator on strings.
In(a, b) == \E i \in 0..(Len(b) - Len(a)) : SubSeq(b, i + 1, i + Len(a)) = a

\* Lines 80 and 107: cleaned_company_name.
Cleaned(company_name) == Lower(clean_company_name(company_name))

\* Lines 80, 86, 90 (and 107, 110, 114): the validation of a candidate.
Accepts(query_name, publisher) == In(Cleaned(query_name), Lower(publisher))

NoMatch == [query |-> "", publisher |-> "", verdict |-> "none"]

\* The rule applied to one pair of names.
Validate ==
  /\ match.verdict = "pending"
  /\ match' = [match EXCEPT
                 !.verdict = IF Accepts(match.query, match.publisher)
                             THEN "True" ELSE "False"]
  /\ UNCHANGED <<letters_to_process, hostCards, appHost, enrichVars, mainpc, browser, sem,
                 waiters, taskVars, pageVars, itemVars>>

(***************************************************************************)
(* process_data_concurrently and process_single_company (main.py 40-186).  *)
(***************************************************************************)
\* A missing value (numpy.nan).
NaN == "<NaN>"

\* DataFrame.to_csv followed by pandas.read_csv: an empty field is read
\* back as a missing value.
CsvRoundTrip(v) == IF v = "" THEN NaN ELSE v

ReadCsv(f) ==
  [i \in 1..Len(f) |->
     [name |-> CsvRoundTrip(f[i].name),
      in5_profile_link |-> CsvRoundTrip(f[i].in5_profile_link),
      website |-> CsvRoundTrip(f[i].website)]]

\* pd.concat over the partition files (line 143).
RECURSIVE ConcatFiles(_)
ConcatFiles(n) == IF n = 0 THEN <<>> ELSE ConcatFiles(n - 1) \o ReadCsv(file[n])

\* The rows as they are, duplicates included.
KeepDuplicates(df) == df

\* Line 144: the first row of each in5_profile_link is kept.
DropDuplicates(df) ==
  LET keep(i) == \A j \in 1..(i - 1) : df[j].in5_profile_link # df[i].in5_profile_link
      F[i \in 0..Len(df)] ==
        IF i = 0 THEN <<>>
        ELSE IF keep(i) THEN Append(F[i - 1], df[i]) ELSE F[i - 1]
  IN  F[Len(df)]

\* Line 145.
DropNaName(df) == SelectSeq(df, LAMBDA r : r.name # NaN)

Stores == {"Google Play", "Apple App Store"}

\* Python's None as the value of a key, and a key that is absent.
PyNone == "<None>"
NoKey == "<no key>"

\* What a lookup returns when it has no validated app (None).
NoApp == [store |-> PyNone, title |-> PyNone]

\* Lines 27-41 and 43-57: the formatted details of a candidate.
FormatDetails(store, cand) == [store |-> store, title |-> cand.title]

\* dict.get(key, '') followed by .lower(): '' for an absent key; a key
\* holding None makes .lower() raise.
PublisherOf(cand) == IF cand.publisher = NoKey THEN "" ELSE cand.publisher

\* Lines 90 and 114: cleaned_company_name in developer_name.
Validated(cleaned_company_name, cand) ==
  In(cleaned_company_name, Lower(PublisherOf(cand)))

\* The loops of lines 82-92 and 109-117 from candidate k on.  A detail
\* fetch that raises (line 85, Google Play only) and a publisher that is
\* None leave the loop by the exception.
RECURSIVE ValidateFrom(_, _, _, _)
ValidateFrom(store, cleaned_company_name, results, k) ==
  IF k > Len(results) THEN [app |-> NoApp, raised |-> FALSE]
  ELSE IF (store = "Google Play" /\ results[k].fetch = "raise") \/ results[k].publisher = PyNone
    THEN [app |-> NoApp, raised |-> TRUE]
  ELSE IF Validated(cleaned_company_name, results[k])
    THEN [app |-> FormatDetails(store, results[k]), raised |-> FALSE]
  ELSE ValidateFrom(store, cleaned_company_name, results, k + 1)

\* _scrape_google_play (lines 71-96) on the answer of the store.
scrape_google_play(company_name, answer) ==
  IF answer.status # "ok" THEN [app |-> NoApp, raised |-> TRUE]
  ELSE \* the one element of the set: the name is cleaned once
       CHOOSE r \in {ValidateFrom("Google Play", c, answer.results, 1) :
                       c \in {Cleaned(company_name)}} : TRUE

\* The search without the handler of lines 67-69.
search_apple_app_store_unhandled(answer) ==
  [results |-> answer.results, raised |-> answer.status # "ok"]

\* _search_apple_app_store (lines 59-69): a RequestException (transport,
\* HTTP status, body that is not JSON) gives []; a JSON body without the
\* shape of an answer raises out of it.
search_apple_app_store(answer) ==
  CASE answer.status = "ok" -> [results |-> answer.results, raised |-> FALSE]
    [] answer.status = "request_error" -> [results |-> <<>>, raised |-> FALSE]
    [] OTHER -> [results |-> <<>>, raised |-> TRUE]

\* _scrape_apple_store (lines 98-121).
scrape_apple_store(company_name, answer) ==
  LET found == search_apple_app_store(answer)
  IN  IF found.raised THEN [app |-> NoApp, raised |-> TRUE]
      ELSE CHOOSE r \in {ValidateFrom("Apple App Store", c, found.results, 1) :
                           c \in {Cleaned(company_name)}} : TRUE

\* Lines 136-142: a result that is not None is appended.
Collect(app_details_list, res) ==
  IF res = NoApp THEN app_details_list ELSE Append(app_details_list, res)

NoRow == [name |-> "<pending>"]

\* CSV_HEADERS (main.py 32-38), with one column for the app of each store.
CSV_HEADERS == <<"name", "in5_profile_link", "website", "has_login_or_signup",
                 "play_store_app", "apple_store_app">>

\* Line 49: {header: np.nan for header in CSV_HEADERS}
EmptyRow == [h \in {CSV_HEADERS[k] : k \in 1..Len(CSV_HEADERS)} |-> NaN]

\* dict.update and item assignment: the keys of kv are set, new ones added.
Update(d, kv) == kv @@ d

\* The key of line 82, and the key the dictionary of line 117 uses.
LoginKeyOfIndex == "has_login_signup"
LoginKey == "has_login_or_signup"

\* combined.csv before any processing run; a table is its header line and
\* its rows.
NoTable == [columns |-> <<>>, rows |-> <<>>]

\* pd.DataFrame(rows).reindex(columns=...) (lines 176-179).
Reindex(df, columns) ==
  [columns |-> columns,
   rows |-> [i \in 1..Len(df) |->
               [h \in {columns[k] : k \in 1..Len(columns)} |->
                  IF h \in DOMAIN df[i] THEN df[i][h] ELSE NaN]]]

\* Python truthiness of a cell: "" is falsy, NaN is not.
Truthy(v) == v # ""

\* Python booleans, as cells of a row.
PyBool == {"True", "False"}

\* WebsiteScraper.check_for_login_or_signup (website_scraper.py 28-89), by
\* its outcome: "raise" when the URL is not a string (url.startswith on a
\* float), "False" when the URL is missing or has no scheme, else what the
\* scan of the page found.
CheckForLoginOrSignup(url, found) ==
  IF ~Truthy(url) THEN "False"
  ELSE IF url = NaN THEN "raise"
  ELSE IF ~StartsWithScheme(url) THEN "False"
  ELSE found

\* Lines 86-87: next((app for app in app_details if app['store'] == store), None)
FirstOf(app_details, store) ==
  LET at == {i \in 1..Len(app_details) : app_details[i].store = store}
  IN  IF at = {} THEN NoApp
      ELSE app_details[CHOOSE i \in at : \A j \in at : i <= j]

\* Lines 76-82: the website branch.
LoginOf(company, do, found) ==
  IF ~do.websites THEN "False"
  ELSE IF website_scraper = "None" THEN "raise"
  ELSE CheckForLoginOrSignup(company.website, found)

\* Line 120 is reached: the name is there and nothing raised before.
ReachesIndexing(company, do, found) ==
  Truthy(company.name) /\ LoginOf(company, do, found) # "raise"

\* process_single_company (main.py 40-127) for one company, the list
\* scrape_apps returned, and the result of the page scan.
ProcessSingleCompany(company, do, app_details, found) ==
  LET basic == Update(EmptyRow, [name |-> company.name,
                                 in5_profile_link |-> company.in5_profile_link,
                                 website |-> company.website])
      login == LoginOf(company, do, found)
      with_login == Update(basic, LoginKey :> login)
      play_store_app == FirstOf(app_details, "Google Play")
      apple_store_app == FirstOf(app_details, "Apple App Store")
      with_play == IF do.apps /\ play_store_app # NoApp
                   THEN Update(with_login, [play_store_app |-> play_store_app.title])
                   ELSE with_login
  IN  IF ~Truthy(company.name) THEN EmptyRow
      ELSE IF login = "raise" THEN basic
      ELSE IF do.apps /\ apple_store_app # NoApp
        THEN Update(with_play, [apple_store_app |-> apple_store_app.title])
      ELSE with_play

(***************************************************************************)
(* VectorStore.add_startup_data (vector_store.py 30-73).                   *)
(***************************************************************************)
\* str.replace(' ', '-')
RECURSIVE Dashed(_)
Dashed(s) ==
  IF s = "" THEN ""
  ELSE (IF Char(s, 1) = " " THEN "-" ELSE Char(s, 1)) \o Dashed(SubSeq(s, 2, Len(s)))

\* Line 49.
DocId(company_name) == Lower(Dashed(company_name))

\* Lines 41-46, 55-61: the text and the metadata of the document.
Titles(app_details) == [i \in 1..Len(app_details) |-> app_details[i].title]

Document(company, app_details) ==
  [name |-> company.name, website |-> company.website,
   has_app |-> IF app_details # <<>> THEN "Yes" ELSE "No",
   apps |-> Titles(app_details)]

\* How a call can go: lines 52 (embedding) and 64-69 (storage) may raise.
IndexOutcomes == {"ok", "embed_error", "store_error"}

\* Lines 64-69: Collection.add does not touch a document whose id is
\* already in the collection (it skips the record, or raises the error
\* that line 72 catches).
CollectionAdd(coll, id, doc) ==
  IF id \in DOMAIN coll THEN coll ELSE coll @@ (id :> doc)

\* The whole call: every exception is caught at line 72.
add_startup_data(coll, company, app_details, outcome) ==
  IF outcome = "ok" THEN CollectionAdd(coll, DocId(company.name), Document(company, app_details))
  ELSE coll

\* Lines 120-122: the row is returned whatever the call did.
AfterIndexingAbort(row, outcome) == IF outcome = "ok" THEN row ELSE EmptyRow
AfterIndexing(row, outcome) == row

EmptyIndex == [id \in {} |-> id]

(***************************************************************************)
(* The processing run (main.py 129-186).                                   *)
(***************************************************************************)
NoAnswer == [status |-> "none", results |-> <<>>]

\* What a worker has done for one company so far.
NoWork == [google |-> "pending", apple |-> "pending", ganswer |-> NoAnswer,
           aanswer |-> NoAnswer, apps |-> <<>>, indexed |-> "no"]

\* How a lookup ended: it raised inside the source function, it accepted a
\* candidate, or it went through the results and accepted none.
LookupStatus(r) == IF r.raised THEN "failed" ELSE IF r.app # NoApp THEN "hit" ELSE "miss"

CrawlEnded ==
  /\ mainpc \in {"completed", "aborted"}
  /\ \A p \in Letters : pc[p] \notin InGate \cup {"waiting"}

crawlVars == <<letters_to_process, hostCards, mainpc, browser, sem, waiters,
               taskVars, pageVars, itemVars>>

\* python main.py --process-apps / --process-websites (lines 244-249),
\* after the scraping run has ended.
StartProcessing ==
  /\ epc = "idle"
  /\ CrawlEnded
  /\ \E a, w \in BOOLEAN :
       /\ a \/ w
       /\ flags' = [apps |-> a, websites |-> w]
  /\ epc' = "load"
  /\ UNCHANGED <<crawlVars, appHost, match, website_scraper, companies, rows, combined, work, index>>

\* Lines 138-141: no partition file, nothing to do.
LoadNoFiles ==
  /\ epc = "load"
  /\ \A p \in Letters : file[p] = NoFile
  /\ epc' = "done"
  /\ UNCHANGED <<crawlVars, appHost, match, website_scraper, flags, companies, rows, combined, work, index>>

\* Lines 143-147.
Load ==
  /\ epc = "load"
  /\ \E p \in Letters : file[p] # NoFile
  /\ companies' = DropNaName(DropDuplicates(ConcatFiles(NumLetters)))
  /\ epc' = "init"
  /\ UNCHANGED <<crawlVars, appHost, match, website_scraper, flags, rows, combined, work, index>>

\* Lines 152-155: the shared instances, website processing not asked for.
InitScrapers ==
  /\ epc = "init"
  /\ ~flags.websites
  /\ rows' = [i \in 1..Len(companies) |-> NoRow]
  /\ work' = [i \in 1..Len(companies) |-> NoWork]
  /\ epc' = "work"
  /\ UNCHANGED <<crawlVars, appHost, match, website_scraper, flags, companies, combined, index>>

\* Lines 156-158: WebsiteScraper() reads config.LOGIN_SIGNUP_KEYWORDS
\* (website_scraper.py 23-26), which config.py does not define: the
\* AttributeError leaves process_data_concurrently.
InitScrapersCrash ==
  /\ epc = "init"
  /\ flags.websites
  /\ epc' = "crashed"
  /\ UNCHANGED <<crawlVars, appHost, match, website_scraper, flags, companies, rows, combined, work, index>>

\* A worker is inside scrape_apps (main.py 74) for company i.
InScrapeApps(i) ==
  /\ epc = "work"
  /\ i \in 1..Len(companies)
  /\ rows[i] = NoRow
  /\ Truthy(companies[i].name)
  /\ flags.apps

\* app_scraper.py 131, 136-140: the Google Play lookup of company i
\* completes and its result is collected.
GoogleLookup(i) ==
  /\ InScrapeApps(i)
  /\ work[i].google = "pending"
  /\ \E answer \in appHost.google :
     \E r \in {scrape_google_play(companies[i].name, answer)} :
           work' = [work EXCEPT ![i].google = LookupStatus(r),
                                ![i].ganswer = answer,
                                ![i].apps = Collect(@, r.app)]
  /\ UNCHANGED <<crawlVars, appHost, match, website_scraper, epc, flags, companies, rows, combined, index>>

\* app_scraper.py 132, 136-140: the Apple App Store lookup of company i
\* completes and its result is collected.
AppleLookup(i) ==
  /\ InScrapeApps(i)
  /\ work[i].apple = "pending"
  /\ \E answer \in appHost.apple :
     \E r \in {scrape_apple_store(companies[i].name, answer)} :
           work' = [work EXCEPT ![i].apple = LookupStatus(r),
                                ![i].aanswer = answer,
                                ![i].apps = Collect(@, r.app)]
  /\ UNCHANGED <<crawlVars, appHost, match, website_scraper, epc, flags, companies, rows, combined, index>>

\* Lines 166-169: a worker of the pool finishes process_single_company on
\* one company (main.py 76-127, after scrape_apps has returned);
\* executor.map keeps the results in the order of the input.
ProcessCompany(i) ==
  /\ epc = "work"
  /\ i \in 1..Len(companies)
  /\ rows[i] = NoRow
  /\ (flags.apps /\ Truthy(companies[i].name))
        => (work[i].google # "pending" /\ work[i].apple # "pending")
  /\ \E found \in PyBool, outcome \in IndexOutcomes :
       LET row == ProcessSingleCompany(companies[i], flags, work[i].apps, found)
           reaches == ReachesIndexing(companies[i], flags, found)
       IN  /\ rows' = [rows EXCEPT ![i] = IF reaches THEN AfterIndexing(row, outcome) ELSE row]
           /\ index' = IF reaches
                       THEN add_startup_data(index, companies[i], work[i].apps, outcome)
                       ELSE index
           /\ work' = [work EXCEPT ![i].indexed = IF reaches THEN outcome ELSE "skipped"]
  /\ UNCHANGED <<crawlVars, appHost, match, website_scraper, epc, flags, companies, combined>>

\* Lines 172-184: the results replace combined.csv.
SaveCombined ==
  /\ epc = "work"
  /\ \A i \in 1..Len(rows) : rows[i] # NoRow
  /\ combined' = IF rows # <<>> THEN Reindex(rows, CSV_HEADERS) ELSE combined
  /\ epc' = "done"
  /\ UNCHANGED <<crawlVars, appHost, match, website_scraper, flags, companies, rows, work, index>>

WorkerStep(i) == GoogleLookup(i) \/ AppleLookup(i) \/ ProcessCompany(i)

NextEnrich ==
  \/ StartProcessing \/ LoadNoFiles \/ Load \/ InitScrapers \/ InitScrapersCrash
  \/ SaveCombined
  \/ \E i \in 1..Len(companies) : WorkerStep(i)

(***************************************************************************)
(* The app stores, as the lookups see them.                                *)
(***************************************************************************)
\* Search results.  fetch is what the detail request of line 85 does for
\* the result (the App Store search carries the details itself).
GFalcon   == [title |-> "Falcon Go",   publisher |-> "Falcon Technologies", fetch |-> "ok"]
GBeta     == [title |-> "Beta Pay",    publisher |-> "Beta Corp",           fetch |-> "ok"]
GBroken   == [title |-> "Falcon Lite", publisher |-> "Falcon Technologies", fetch |-> "raise"]
GNoneDev  == [title |-> "Anon",        publisher |-> PyNone,                fetch |-> "ok"]
AFalcon   == [title |-> "Falcon iOS",  publisher |-> "FALCON TECH",         fetch |-> "none"]
ABeta     == [title |-> "Beta iOS",    publisher |-> "Beta Corp",           fetch |-> "none"]
ANoArtist == [title |-> "Nameless",    publisher |-> NoKey,                 fetch |-> "none"]

Ok(results) == [status |-> "ok", results |-> results]

\* The search asks for at most NO_OF_APPS_TO_SCRAPE results (lines 78, 61).
AtMost(answers) == {a \in answers : Len(a.results) <= NO_OF_APPS_TO_SCRAPE}

\* The stores of the processing run that follows a scraping run.
SmallAppHost ==
  [google |-> {[status |-> "raise", results |-> <<>>], Ok(<<GFalcon>>)},
   apple  |-> {[status |-> "request_error", results |-> <<>>], Ok(<<AFalcon>>)}]

\* The stores a single worker is run against.
RichAppHost ==
  [google |-> AtMost({[status |-> "raise", results |-> <<>>], Ok(<<>>),
                      Ok(<<GFalcon>>), Ok(<<GBeta>>),
                      Ok(<<GBeta, GFalcon>>), Ok(<<GBroken, GFalcon>>),
                      Ok(<<GNoneDev, GFalcon>>), Ok(<<GBeta, GBroken, GFalcon>>)}),
   apple  |-> AtMost({[status |-> "request_error", results |-> <<>>],
                      [status |-> "bad_body", results |-> <<>>],
                      Ok(<<AFalcon>>), Ok(<<ANoArtist, AFalcon>>),
                      Ok(<<ABeta, ANoArtist, AFalcon>>)})]

(***************************************************************************)
(* Specifications.                                                         *)
(***************************************************************************)
GateStep(p) == Admit(p) \/ Cancel(p)

TaskStep(p) ==
  \/ NewContext(p) \/ NewContextFault(p) \/ NewPage(p) \/ NewPageFault(p)
  \/ Goto(p) \/ GotoFault(p)
  \/ Save(p) \/ SaveSkipped(p) \/ SaveFault(p)
  \/ Finally(p) \/ FinallyFault(p)

ScrapeStep(p) ==
  \/ Step1(p) \/ Step1Timeout(p) \/ Step1Fault(p)
  \/ ClickFilter(p) \/ ClickFilterFault(p)
  \/ WaitFilter(p) \/ WaitFilterTimeout(p) \/ WaitFilterFault(p)
  \/ Read(p) \/ ReadFault(p)
  \/ ItemHrefFault(p) \/ ItemNoHref(p) \/ ItemSeen(p) \/ ItemExtractFault(p)
  \/ ItemNoWebsite(p) \/ ItemProbe(p) \/ ItemProbeFault(p)
  \/ ShowMoreHidden(p) \/ ShowMoreClick(p) \/ ShowMoreClickTimeout(p)
  \/ ShowMoreFault(p)
  \/ Growth(p) \/ GrowthTimeout(p) \/ GrowthFault(p)

MainStep ==
  Gather \/ GatherReturns \/ GatherRaises \/ BrowserClose \/ BrowserCloseFault

\* A run on one letter: nothing ever queues at the gate, and no task is
\* left to cancel.
NextLetter == MainStep \/ \E p \in Letters : TaskStep(p) \/ ScrapeStep(p)

NextAll == NextLetter \/ \E p \in Letters : GateStep(p)

\* Nothing of the processing run has happened.
InitIdle ==
  /\ epc = "idle"
  /\ flags = [apps |-> FALSE, websites |-> FALSE]
  /\ website_scraper = "None"
  /\ companies = <<>>
  /\ rows = <<>>
  /\ combined = NoTable
  /\ work = <<>>
  /\ index = EmptyIndex
  /\ appHost = SmallAppHost

\* python main.py --scrape --letter A
InitLetter ==
  /\ InitCrawl(<<1>>, [p \in Letters |-> RichHost])
  /\ InitIdle
  /\ match = NoMatch

\* python main.py --scrape --all
InitAll ==
  /\ InitCrawl([i \in Letters |-> i],
               [p \in Letters |-> IF p = 1 THEN SmallHost ELSE EmptyHost])
  /\ InitIdle
  /\ match = NoMatch

Spec == InitLetter /\ [][NextLetter]_vars

SpecAll == InitAll /\ [][NextAll]_vars

\* Two partitions with cards in their listing, the others empty.
YallaHost == [front |-> {CardX}, listing |-> {CardY}, cap |-> 1]

InitPair ==
  /\ InitCrawl(<<1, 2, 3>>,
               [p \in Letters |-> IF p = 1 THEN SmallHost
                                  ELSE IF p = 2 THEN YallaHost ELSE EmptyHost])
  /\ InitIdle
  /\ match = NoMatch

SpecPair == InitPair /\ [][NextAll]_vars

\* The run on one letter when the event loop keeps running what is ready
\* and every page operation completes or times out.
SpecLive == InitLetter /\ [][NextLetter]_vars /\ WF_vars(NextLetter)

\* The scraping run on one letter, then the processing run.
SpecPipeline == InitLetter /\ [][NextLetter \/ NextEnrich]_vars

\* The match rule on pairs of a company name and a publisher name.
Queries == {"Acme LLC", "ACME, Inc.", "Acme", "Acme Co. Ltd", "Falco", "LLC",
            "Acme GmbH.", "Beta Corp", "Acme Inc Labs"}
Publishers == {"Acme Technologies", "Beta Corp", "acme studios", "ACME",
               "Fal Industries", "", "Acme Co Holdings"}

InitMatch ==
  /\ InitCrawl(<<1>>, [p \in Letters |-> EmptyHost])
  /\ InitIdle
  /\ \E q \in Queries, d \in Publishers :
       match = [query |-> q, publisher |-> d, verdict |-> "pending"]

SpecMatch == InitMatch /\ [][Validate]_vars

\* process_single_company on one or two companies of a loaded list, with
\* the AppScraper and the VectorStore in place, the WebsiteScraper in place
\* or not, and the collection as an earlier run may have left it.
FalconSite   == [name |-> "Falcon FZCO", in5_profile_link |-> XAbs,
                 website |-> "https://falcon.ae"]
FalconNoSite == [name |-> "Falcon FZCO", in5_profile_link |-> XAbs, website |-> NaN]
FalconAgain  == [name |-> "falcon fzco", in5_profile_link |-> "https://infive.ae/setup/directory/startup-y",
                 website |-> "falcon.ae"]

WorkLists == {<<FalconSite>>, <<FalconNoSite>>, <<FalconSite, FalconAgain>>}

OldDocument == [name |-> "Falcon FZCO", website |-> "https://falcon.ae",
                has_app |-> "No", apps |-> <<>>]

InitWorkers ==
  /\ InitCrawl(<<1>>, [p \in Letters |-> EmptyHost])
  /\ match = NoMatch
  /\ epc = "work"
  /\ \E a, w \in BOOLEAN : (a \/ w) /\ flags = [apps |-> a, websites |-> w]
  /\ website_scraper \in IF flags.websites THEN {"None", "ready"} ELSE {"None"}
  /\ companies \in WorkLists
  /\ rows = [i \in 1..Len(companies) |-> NoRow]
  /\ work = [i \in 1..Len(companies) |-> NoWork]
  /\ combined = NoTable
  /\ index \in IF Len(companies) = 1 THEN {EmptyIndex, "falcon-fzco" :> OldDocument}
               ELSE {EmptyIndex}
  /\ appHost = RichAppHost

NextWorkers == SaveCombined \/ \E i \in 1..Len(companies) : WorkerStep(i)

SpecWorkers == InitWorkers /\ [][NextWorkers]_vars

\* python main.py --process-apps / --process-websites on the partition
\* files earlier scraping runs have left in the output directory.
EFalcon == [name |-> "Falcon FZCO", in5_profile_link |-> XAbs, website |-> "https://falcon.ae"]
EYalla  == [name |-> "Yalla Labs", in5_profile_link |-> "https://infive.ae/setup/directory/startup-y",
            website |-> ""]
ENoName == [name |-> "", in5_profile_link |-> "https://infive.ae/setup/directory/startup-z",
            website |-> ""]

LeftFiles == {NoFile, <<EFalcon>>, <<EYalla, EFalcon>>, <<ENoName, EYalla>>}

InitBatch ==
  /\ \E f1, f2 \in LeftFiles :
       InitCrawlOver(<<1>>, [p \in Letters |-> EmptyHost],
                     [p \in Letters |-> IF p = 1 THEN f1 ELSE IF p = 2 THEN f2 ELSE NoFile])
  /\ match = NoMatch
  /\ epc = "load"
  /\ \E a, w \in BOOLEAN : (a \/ w) /\ flags = [apps |-> a, websites |-> w]
  /\ website_scraper = "None"
  /\ companies = <<>>
  /\ rows = <<>>
  /\ work = <<>>
  /\ combined = NoTable
  /\ index = EmptyIndex
  /\ appHost = SmallAppHost

NextBatch ==
  \/ LoadNoFiles \/ Load \/ InitScrapers \/ InitScrapersCrash \/ SaveCombined
  \/ \E i \in 1..Len(companies) : WorkerStep(i)

SpecBatch == InitBatch /\ [][NextBatch]_vars

\* python main.py --scrape --letter X run again: the output directory may
\* hold the partition file an earlier run wrote for the letter, and the
\* listing of the letter may have changed since (it may be empty now).
OldFile == <<EYalla, EFalcon>>

InitRerun ==
  /\ \E h \in {EmptyHost, RichHost} : \E f \in {NoFile, OldFile} :
       InitCrawlOver(<<1>>, [p \in Letters |-> h],
                     [p \in Letters |-> IF p = 1 THEN f ELSE NoFile])
  /\ InitIdle
  /\ match = NoMatch

SpecRerun == InitRerun /\ [][NextLetter]_vars

(***************************************************************************)
(* Properties of the crawl stage.                                          *)
(***************************************************************************)
Range(s) == {s[i] : i \in 1..Len(s)}

UniqueLinks(s) ==
  \A i, j \in 1..Len(s) : s[i].in5_profile_link = s[j].in5_profile_link => i = j

\* C1: in every state of scrape_by_letter the accepted list, the DataFrame
\* returned from it and the file written from it hold at most one entity
\* per profile_link.
C1_DedupInvariant ==
  \A p \in Letters :
    UniqueLinks(accepted[p]) /\ UniqueLinks(result[p]) /\ UniqueLinks(file[p])

\* The listing showed two cards with the same profile_link (a relative and
\* an absolute href), none was skipped as invalid, and the loop ended
\* normally with exactly one entity.
C1_TwoCardsOneEntity ==
  \E p \in Letters :
    /\ pc[p] = "returned" /\ ~faulted[p]
    /\ Len(dom[p]) = 2
    /\ dom[p][1].href # dom[p][2].href
    /\ ~Falsy(dom[p][1].href)
    /\ IdentityKey(dom[p][1].href) = IdentityKey(dom[p][2].href)
    /\ rejected[p] = {}
    /\ Len(result[p]) = 1

\* C2: within one run of scrape_by_letter no profile_link has its fields
\* extracted, or its website probed, a second time.
C2_AtMostOnce == \A p \in Letters : repeated[p] = {}

\* C3: the tasks inside the `async with semaphore` block are never more
\* than MAX_CONCURRENT_TASKS, every exit from the block has given its slot
\* back (the semaphore counts exactly the free slots), the queue holds
\* exactly the waiting tasks, and the head of the queue can enter as soon
\* as a slot is free.
C3_AdmissionGate ==
  /\ Cardinality(Holders) <= MAX_CONCURRENT_TASKS
  /\ sem = MAX_CONCURRENT_TASKS - Cardinality(Holders)
  /\ Range(waiters) = {p \in Letters : pc[p] = "waiting"}
  /\ (waiters # <<>> /\ sem > 0) => ENABLED Admit(Head(waiters))

\* The last letter had to queue; a task has left the gate by the exception
\* of its finally block, the queued task is inside, and the gate is full.
C3_AdmittedAfterFault ==
  /\ NumLetters > MAX_CONCURRENT_TASKS
  /\ pc[NumLetters] \in InGate
  /\ \E p \in Letters : pc[p] = "failed"
  /\ sem = 0

\* C4: no task is ever cancelled, and the shared browser is not closed
\* while a task of the run has not finished.
C4_SiblingsUnaffected ==
  /\ \A p \in Letters : pc[p] # "cancelled"
  /\ browser = "closed" => \A p \in Range(letters_to_process) : pc[p] \in Finished

\* C5 as stated: a partition whose scrape_by_letter ran into the handler of
\* line 184 returns no entity and writes none.
C5_FaultYieldsEmpty ==
  \A p \in Letters :
    (pc[p] \in {"returned", "finally"} /\ faulted[p]) =>
      (result[p] = <<>> /\ file[p] = NoFile)

\* C5 as amended: scrape_by_letter returns exactly the entities accepted
\* before the fault, the file holds nothing but what was returned, and
\* nothing is written before scrape_by_letter has returned.
C5_FaultYieldsAccepted ==
  \A p \in Letters :
    /\ pc[p] \in {"returned", "finally"} =>
         /\ faulted[p] => result[p] = accepted[p]
         /\ file[p] \in {NoFile, result[p]}
    /\ pc[p] \in InGate \ {"returned", "finally"} => file[p] = NoFile

\* A faulted partition has written the entities it had accepted.
C5_PartialWritten ==
  \E p \in Letters :
    pc[p] = "finally" /\ faulted[p] /\ result[p] # <<>> /\ file[p] = result[p]

\* C6: when main_async has returned or has been left, every task of the
\* run has finished and none was cancelled.
C6_AllAwaited ==
  mainpc \in {"completed", "aborted"} =>
    \A p \in Range(letters_to_process) : pc[p] \in {"done", "failed"}

\* C7: an accepted entity with a website had an ok response to its probe,
\* an accepted entity without a website was accepted without a probe (a
\* probe of its link belongs to an earlier, faulted processing of the
\* card); a link skipped for its website is recorded as processed and is
\* not in the accepted list.
C7_ProbeGate ==
  \A p \in Letters :
    /\ \A i \in 1..Len(accepted[p]) :
         IF accepted[p][i].website # ""
         THEN accepted[p][i].in5_profile_link \in probedOk[p]
         ELSE accepted[p][i].in5_profile_link \in probed[p] =>
                accepted[p][i].in5_profile_link \in repeated[p]
    /\ pc[p] \in InGate =>
         /\ rejected[p] \subseteq processed[p]
         /\ rejected[p] \cap Links(accepted[p]) = {}

\* One card was skipped for its website, another without a website was
\* accepted.
C7_RejectedAndAccepted ==
  \E p \in Letters :
    /\ pc[p] \in InGate
    /\ rejected[p] # {}
    /\ \E i \in 1..Len(accepted[p]) : accepted[p][i].website = ""

\* C9: the for loop over the cards is only ever left at its end, whatever
\* faults single cards ran into, and what scrape_by_letter returns is the
\* accepted list.
C9_ItemFaultIsolation ==
  \A p \in Letters :
    /\ pc[p] \in {"read", "show_more", "wait_growth", "returned", "finally"} =>
         idx[p] = count[p]
    /\ pc[p] \in {"returned", "finally"} => Links(accepted[p]) \subseteq Links(result[p])

\* The first card faulted (it was extracted and is not processed), a later
\* card was accepted and returned.
C9_FaultThenAccepted ==
  \E p \in Letters :
    /\ pc[p] = "returned" /\ ~faulted[p]
    /\ Len(dom[p]) = 2
    /\ IdentityKey(dom[p][1].href) \in extracted[p] \ processed[p]
    /\ IdentityKey(dom[p][2].href) \in Links(result[p])

\* C10: the loop of step 3 is entered only after the first item's href has
\* been seen to differ from its value before the filter click.
C10_FilterConfirmed == \A p \in Letters : pc[p] \in InLoop => observed[p]

\* C11: when the wait for more cards has timed out, scrape_by_letter has
\* returned the whole accepted list by its normal return, not through the
\* handler of line 184, and the file, if written, holds that list.
C11_NoGrowthIsExhaustion ==
  \A p \in Letters :
    (pc[p] \in {"returned", "finally"} /\ exit[p] = "no_growth") =>
      /\ result[p] = accepted[p]
      /\ ~faulted[p]
      /\ file[p] \in {NoFile, accepted[p]}

\* The wait timed out after entities had been accepted; they were returned.
C11_NoGrowthWithEntities ==
  \E p \in Letters :
    pc[p] = "returned" /\ exit[p] = "no_growth" /\ result[p] # <<>>

\* C12: a step of the loop body on a card whose link is in processed_links
\* (or that has no link) leaves processed_links and the accepted list as
\* they were; and every accepted link is in processed_links once, so no
\* entity is appended a second time.
C12_RereadIdempotent ==
  /\ [](\A p \in Letters :
          pc[p] \in InLoop =>
            /\ UniqueLinks(accepted[p])
            /\ Links(accepted[p]) \subseteq processed[p])
  /\ [][\A p \in Letters :
          (/\ pc[p] = "items"
           /\ pc'[p] \in InLoop
           /\ (Falsy(Element(p).href) \/ Link(p) \in processed[p]))
          => (processed'[p] = processed[p] /\ accepted'[p] = accepted[p])]_vars

\* An iteration of the while loop has ended in which a card processed in an
\* earlier iteration was read again, every visible card being processed by
\* then; processed_links and the accepted list are what they were when the
\* iteration began.
C12_SecondPassOverSeenCards ==
  \E p \in Letters :
    /\ pc[p] = "show_more"
    /\ reread[p] # {}
    /\ \A i \in 1..Len(dom[p]) : IdentityKey(dom[p][i].href) \in before[p]
    /\ processed[p] = before[p]
    /\ Links(accepted[p]) # {}

(***************************************************************************)
(* Properties of the scraping run followed by the processing run.          *)
(***************************************************************************)
\* C8: once the processing run has ended, every entity whose website
\* failed its probe has a row in combined.csv, with its website and with
\* has_login_or_signup false.
C8_InvalidSiteKept ==
  epc \in {"done", "crashed"} =>
    \A p \in Letters : \A l \in rejected[p] :
      \E i \in 1..Len(combined.rows) :
        /\ combined.rows[i].in5_profile_link = l
        /\ combined.rows[i].website \notin {NaN, ""}
        /\ combined.rows[i].has_login_or_signup = "False"

(***************************************************************************)
(* Properties of process_single_company and of the app lookups.            *)
(***************************************************************************)
Companies == 1..Len(companies)

\* The worker of company i has returned its row.
Returned(i) == i \in 1..Len(rows) /\ rows[i] # NoRow

\* The title of the candidate scrape_apps returned for the store.
TitleOf(i, store) == FirstOf(work[i].apps, store).title

\* The lookup of the store for company i is over and it failed: the search
\* raised or answered with an error, or the validation of a result raised.
SourceFailed(i, store) ==
  IF store = "Google Play"
  THEN work[i].google = "failed"
  ELSE work[i].apple = "failed" \/ work[i].aanswer.status = "request_error"

SourceHit(i, store) ==
  IF store = "Google Play" THEN work[i].google = "hit" ELSE work[i].apple = "hit"

C14_BranchesIndependent ==
  \A i \in Companies :
    Returned(i) =>
      /\ flags.apps =>
           \A store \in Stores :
             FirstOf(work[i].apps, store) # NoApp
               => rows[i][IF store = "Google Play" THEN "play_store_app"
                          ELSE "apple_store_app"] = TitleOf(i, store)
      /\ (/\ flags.websites /\ website_scraper = "ready"
          /\ companies[i].website # NaN
          /\ \E store \in Stores : SourceFailed(i, store))
           => rows[i].has_login_or_signup \in PyBool

\* The remote calls of the lookup for company i failed: the search, or the
\* detail request of the first result.
RemoteFailed(i, store) ==
  IF store = "Google Play"
  THEN \/ work[i].ganswer.status = "raise"
       \/ /\ work[i].ganswer.status = "ok" /\ work[i].ganswer.results # <<>>
          /\ work[i].ganswer.results[1].fetch = "raise"
  ELSE work[i].aanswer.status \in {"request_error", "bad_body"}

\* The website branch raised for company i.
ProbeRaised(i) ==
  flags.websites /\ (website_scraper = "None" \/ companies[i].website = NaN)

\* C15: a remote call of a store that fails gives no data from that store,
\* (an empty result list from the App Store search on a request error, None
\* from both lookups), and no exception of a lookup reaches scrape_apps or
\* process_single_company: the worker goes on to the row and the index.
C15_FailureIsNoData ==
  \A i \in Companies :
    /\ \A store \in Stores :
         RemoteFailed(i, store) => FirstOf(work[i].apps, store) = NoApp
    /\ RemoteFailed(i, "Google Play") => work[i].google = "failed"
    /\ work[i].aanswer.status = "request_error" => work[i].apple = "miss"
    /\ work[i].aanswer.status = "bad_body" => work[i].apple = "failed"
    /\ (Returned(i) /\ ~ProbeRaised(i))
         => /\ rows[i].has_login_or_signup \in PyBool
            /\ work[i].indexed \in IndexOutcomes

\* Both lookups of a company failed remotely, and its row was completed and
\* handed to the vector store.
C15_BothFailedRowComplete ==
  \E i \in Companies :
    /\ Returned(i)
    /\ RemoteFailed(i, "Google Play") /\ work[i].aanswer.status = "request_error"
    /\ work[i].apps = <<>>
    /\ rows[i].has_login_or_signup = "False"
    /\ rows[i].play_store_app = NaN /\ rows[i].apple_store_app = NaN
    /\ work[i].indexed = "ok"

\* The results the store returned to the finished lookup of company i.
ResultsOf(i, store) ==
  IF store = "Google Play" THEN work[i].ganswer.results ELSE work[i].aanswer.results

Searched(i, store) ==
  IF store = "Google Play" THEN work[i].ganswer.status = "ok"
  ELSE work[i].aanswer.status = "ok"

\* The result can be validated, and the match rule accepts its publisher.
Acceptable(i, cand) ==
  /\ cand.fetch # "raise"
  /\ cand.publisher # PyNone
  /\ Accepts(companies[i].name, PublisherOf(cand))

\* C16: for each store whose search answered, the candidate returned is the
\* first result in rank order that the match rule accepts, and there is
\* none only if no result is acceptable; a result that cannot be validated
\* is passed over.
C16_FirstMatchWins ==
  \A i \in Companies : \A store \in Stores :
    Searched(i, store) =>
      LET results == ResultsOf(i, store)
          good == {k \in 1..Len(results) : Acceptable(i, results[k])}
      IN  IF good = {} THEN FirstOf(work[i].apps, store) = NoApp
          ELSE FirstOf(work[i].apps, store) =
                 FormatDetails(store, results[CHOOSE k \in good : \A j \in good : k <= j])

\* The cell of the row of company i that holds the app of the store.
AppCell(i, store) ==
  IF store = "Google Play" THEN rows[i].play_store_app ELSE rows[i].apple_store_app

\* The candidates scrape_apps has collected for company i from the store.
FromStore(i, store) == {k \in 1..Len(work[i].apps) : work[i].apps[k].store = store}

IsSuffixTail(t) ==
  \E a, b \in 0..Len(t) :
    /\ a <= b
    /\ \A k \in 1..a : Char(t, k) \in {",", ".", " "}
    /\ Lower(SubSeq(t, a + 1, b)) \in {"llc", "fzco", "inc", "ltd", "co", "gmbh"}
    /\ \A k \in (b + 1)..Len(t) : Char(t, k) \in {".", " "}

\* The query name without its trailing suffix: the name up to the longest
\* tail that is a suffix tail, the whole name when it has none.
WithoutSuffix(q) ==
  LET heads == {n \in 0..(Len(q) - 1) : IsSuffixTail(SubSeq(q, n + 1, Len(q)))}
  IN  IF heads = {} THEN q
      ELSE SubSeq(q, 1, CHOOSE n \in heads : \A m \in heads : n <= m)

\* C18: the rule accepts exactly when the query name without its trailing
\* legal-entity suffix, lower-cased, is a substring of the lower-cased
\* publisher name; it accepts ("Acme LLC", "Acme Technologies") and
\* ("ACME, Inc.", "acme studios") and rejects ("Acme LLC", "Beta Corp").
C18_MatchRule ==
  match.verdict \in {"True", "False"} =>
    /\ match.verdict = "True" <=>
         \E n \in 0..(Len(match.publisher) - Len(WithoutSuffix(match.query))) :
           SubSeq(Lower(match.publisher), n + 1, n + Len(WithoutSuffix(match.query)))
             = Lower(WithoutSuffix(match.query))
    /\ (match.query = "Acme LLC" /\ match.publisher = "Acme Technologies")
         => match.verdict = "True"
    /\ (match.query = "Acme LLC" /\ match.publisher = "Beta Corp")
         => match.verdict = "False"
    /\ (match.query = "ACME, Inc." /\ match.publisher = "acme studios")
         => match.verdict = "True"

\* The rule accepted a pair whose query name is, as written, in no case a
\* part of the publisher name: the suffix was stripped whatever its case.
C18_AcceptedBySuffixStripping ==
  /\ match.query = "ACME, Inc." /\ match.publisher = "acme studios"
  /\ match.verdict = "True"

(***************************************************************************)
(* Properties of the vector store.                                         *)
(***************************************************************************)
\* add_startup_data ran for company i in this step and nothing it called
\* raised.
Indexed(i) == work[i].indexed = "no" /\ work'[i].indexed = "ok"

\* C19: the collection holds one document per normalized name, and after a
\* call of add_startup_data that went through, the document under the id
\* of the company is the one of this call, whether or not the id was in
\* the collection before.
C19_LatestWins ==
  [][\A i \in Companies :
       Indexed(i) =>
         /\ DocId(companies[i].name) \in DOMAIN index'
         /\ index'[DocId(companies[i].name)] = Document(companies[i], work[i].apps)]_vars

\* The embedding or the storage of the document of company i failed.
IndexingFailed(i) == work[i].indexed \in {"embed_error", "store_error"}

\* The row of company i has everything the worker gathered.
FullyPopulated(i) ==
  /\ rows[i].name = companies[i].name
  /\ rows[i].in5_profile_link = companies[i].in5_profile_link
  /\ rows[i].website = companies[i].website
  /\ rows[i].has_login_or_signup \in PyBool
  /\ \A store \in Stores :
       AppCell(i, store) = IF flags.apps /\ FromStore(i, store) # {}
                           THEN TitleOf(i, store) ELSE NaN

\* C20: when the embedding or the storage of one company's document fails,
\* the worker still returns the fully populated row of that company, and
\* the batch ends with a row for every company in the output table and a
\* document for every company whose indexing went through.
C20_IndexingFaultConfined ==
  /\ \A i \in Companies : (Returned(i) /\ IndexingFailed(i)) => FullyPopulated(i)
  /\ (epc = "done" /\ \E i \in Companies : IndexingFailed(i)) =>
       /\ combined.rows = rows
       /\ \A j \in Companies :
            /\ Returned(j)
            /\ work[j].indexed = "ok" => DocId(companies[j].name) \in DOMAIN index

\* The indexing of the first of two companies failed after an app had been
\* found for it; its row is complete, the second company was indexed, and
\* both rows are in the output table.
C20_FailedThenIndexed ==
  /\ epc = "done" /\ Len(companies) = 2
  /\ work[1].indexed = "embed_error" /\ work[2].indexed = "ok"
  /\ rows[1].play_store_app = "Falcon Go"
  /\ FullyPopulated(1) /\ FullyPopulated(2)
  /\ combined.rows = rows
  /\ DocId(companies[2].name) \in DOMAIN index

(***************************************************************************)
(* Properties of the output table.                                         *)
(***************************************************************************)
Headers == {CSV_HEADERS[k] : k \in 1..Len(CSV_HEADERS)}

\* C21: every row a worker returned has exactly the keys of CSV_HEADERS,
\* whatever the worker found and wherever it was cut short, and the table
\* written has exactly the columns of CSV_HEADERS, in that order.
C21_StableSchema ==
  /\ \A i \in Companies : Returned(i) => DOMAIN rows[i] = Headers
  /\ combined # NoTable =>
       /\ combined.columns = CSV_HEADERS
       /\ \A i \in 1..Len(combined.rows) : DOMAIN combined.rows[i] = Headers

\* The table was written from two rows: one with the apps of both stores,
\* one with no app at all.
C21_TableOfUnevenRows ==
  /\ epc = "done" /\ Len(rows) = 2
  /\ combined.rows = rows
  /\ \E i, j \in Companies :
       /\ rows[i].play_store_app # NaN /\ rows[i].apple_store_app # NaN
       /\ rows[j].play_store_app = NaN /\ rows[j].apple_store_app = NaN

(***************************************************************************)
(* Properties of the merge.                                                *)
(***************************************************************************)
\* The list scrape_apps returns for company i when the Google Play lookup
\* completes first, from the answers the two stores gave.
GoogleFirst(i) ==
  Collect(Collect(<<>>, scrape_google_play(companies[i].name, work[i].ganswer).app),
          scrape_apple_store(companies[i].name, work[i].aanswer).app)

BothLookedUp(i) == work[i].google # "pending" /\ work[i].apple # "pending"

\* C22: for the same company and the same answers of the two stores, the
\* row and the document written to the collection are those of the run in
\* which the Google Play lookup completes first, whichever lookup did
\* complete first.
C22_OrderIndependent ==
  /\ [](\A i \in Companies :
          (Returned(i) /\ BothLookedUp(i)) =>
            \E found \in PyBool :
              rows[i] = ProcessSingleCompany(companies[i], flags, GoogleFirst(i), found))
  /\ [][\A i \in Companies :
          (Indexed(i) /\ BothLookedUp(i) /\ DocId(companies[i].name) \notin DOMAIN index)
            => index'[DocId(companies[i].name)] = Document(companies[i], GoogleFirst(i))]_vars

(***************************************************************************)
(* Properties of the batch.                                                *)
(***************************************************************************)
\* The profile links of the named entities in the partition files.
HarvestedLinks ==
  UNION {{file[p][k].in5_profile_link : k \in {n \in 1..Len(file[p]) : file[p][n].name # ""}} :
         p \in Letters}

\* C23: the companies scheduled are the named entities of the partition
\* files, one per in5_profile_link; every worker returns the row of its own
\* company, a returned row is never computed again, and the run ends with
\* one row per company, in the table as well.
C23_OneRowPerEntity ==
  /\ [](epc \in {"work", "done"} =>
          /\ UniqueLinks(companies)
          /\ Links(companies) = HarvestedLinks
          /\ Len(rows) = Len(companies)
          /\ \A i \in Companies :
               Returned(i) => rows[i].in5_profile_link = companies[i].in5_profile_link
          /\ epc = "done" =>
               /\ \A i \in Companies : Returned(i)
               /\ rows # <<>> => combined.rows = rows)
  /\ [][\A i \in 1..Len(rows) : rows[i] # NoRow => rows'[i] = rows[i]]_vars

\* Two partition files held the same entity; the run ended with two rows
\* for the two entities, the first of which failed to be indexed.
C23_DuplicateAcrossFiles ==
  /\ epc = "done"
  /\ \E k1 \in 1..Len(file[1]), k2 \in 1..Len(file[2]) :
       file[1][k1].in5_profile_link = file[2][k2].in5_profile_link
  /\ Len(rows) = 2 /\ combined.rows = rows
  /\ rows[1].in5_profile_link # rows[2].in5_profile_link
  /\ work[1].indexed = "store_error"

(***************************************************************************)
(* Termination of scrape_by_letter.                                        *)
(***************************************************************************)
InScrapeByLetter == {"step1", "click_filter", "wait_filter"} \cup InLoop

\* C24: a call of scrape_by_letter returns; the loop goes into another
\* iteration only when the listing has grown past the count of the
\* iteration before, and it is left without a fault only where the button
\* is not visible or the click brought no growth.
C24_ScrapeReturns ==
  /\ \A p \in Letters : (pc[p] \in InScrapeByLetter) ~> (pc[p] = "returned")
  /\ [][\A p \in Letters :
          /\ (pc[p] = "wait_growth" /\ pc'[p] = "read") => Len(dom'[p]) > count[p]
          /\ (pc[p] \in InLoop /\ pc'[p] = "returned" /\ ~faulted'[p])
               => pc[p] \in {"show_more", "wait_growth"}]_vars

\* The call returned where the button was no longer visible, after an
\* iteration that followed a growth of the listing.
C24_ReturnedAfterGrowth ==
  \E p \in Letters :
    /\ pc[p] = "returned" /\ exit[p] = "no_button"
    /\ reread[p] # {} /\ count[p] = MaxCards

(***************************************************************************)
(* Properties of the partitions' crawl state.                              *)
(***************************************************************************)
StepOf(p) == TaskStep(p) \/ ScrapeStep(p) \/ GateStep(p)

CrawlState(q) == <<processed[q], accepted[q], context[q]>>

\* C25: the processed_links set and the accepted list of a partition and its
\* browsing context are written only by steps of that partition's own task:
\* whichever tasks are running at the same time, a step that changes them
\* for a partition is a step of that partition's task, and it leaves them
\* unchanged for every other partition.
C25_PartitionLocal ==
  [][\A p \in Letters :
       CrawlState(p)' # CrawlState(p) =>
         /\ \A q \in Letters \ {p} : CrawlState(q)' = CrawlState(q)
         /\ StepOf(p)]_vars

\* Two tasks are inside the loop of scrape_by_letter at the same time, each
\* with links of its own in processed_links and entities in its list.
C25_TwoPartitionsCrawling ==
  \E p \in Letters : \E q \in Letters \ {p} :
    /\ pc[p] \in InLoop /\ pc[q] \in InLoop
    /\ processed[p] # {} /\ processed[q] # {}
    /\ accepted[p] # <<>> /\ accepted[q] # <<>>
    /\ processed[p] # processed[q]
    /\ context[p] = "open" /\ context[q] = "open"

(***************************************************************************)
(* Properties of the browsing sessions.                                    *)
(***************************************************************************)
\* C26: a task of scrape_letter_task that has ended, normally or by a fault,
\* has closed the browsing context it created; and the probe of a website,
\* which runs in a validation context of its own, leaves the context of the
\* partition and the cards read from its page as they were.
C26_SessionsClosedInScope ==
  /\ [](\A p \in Letters : pc[p] \in Finished => context[p] # "open")
  /\ [][\A p \in Letters :
          (ItemProbe(p) \/ ItemProbeFault(p)) =>
            /\ context'[p] = context[p]
            /\ dom'[p] = dom[p]
            /\ baseline'[p] = baseline[p]]_vars

(***************************************************************************)
(* Properties of the document ids.                                         *)
(***************************************************************************)
\* C27: two companies of one batch with distinct in5_profile_link whose
\* documents were both handed to the collection were written under distinct
\* document ids.
C27_OwnKeyPerRecord ==
  \A i \in Companies : \A j \in Companies \ {i} :
    (/\ companies[i].in5_profile_link # companies[j].in5_profile_link
     /\ work[i].indexed = "ok"
     /\ work[j].indexed = "ok")
    => DocId(companies[i].name) # DocId(companies[j].name)

(***************************************************************************)
(* Properties of the files of a run made again.                            *)
(***************************************************************************)
\* C28: when lines 200-204 have run without raising, the file of the
\* partition holds the records scrape_by_letter returned in this run and no
\* others: what an earlier run left in the file is gone, also when this run
\* returned no record.
C28_FileOfThisRunOnly ==
  [][\A p \in Letters :
       (Save(p) \/ SaveSkipped(p)) => file'[p] = result[p]]_vars

(***************************************************************************)
(* Properties of _clean_company_name.                                      *)
(***************************************************************************)
\* The name ends in a legal-entity suffix written as a word of its own: the
\* suffix tail starts the name or starts at a space, a comma or a period.
EndsInSuffixWord(q) ==
  \/ IsSuffixTail(q)
  \/ \E n \in 1..Len(q) :
       /\ Char(q, n) \in {" ", ",", "."}
       /\ IsSuffixTail(SubSeq(q, n, Len(q)))

\* C29: a name that does not end in a suffix token as a separate word is
\* cleaned to itself, stripped; the cleaned name of a name that is not empty
\* is not empty, so that a candidate is never accepted on the empty string.
C29_OnlyTrailingSuffixRemoved ==
  match.verdict \in {"True", "False"} =>
    /\ ~EndsInSuffixWord(match.query) =>
         clean_company_name(match.query) = Strip(match.query)
    /\ Strip(match.query) # "" => clean_company_name(match.query) # ""
    /\ match.verdict = "True" => Cleaned(match.query) # ""

==============================================================================
